---------------------------- MODULE Spec2Model ----------------------------
(***************************************************************************)
(* Model of the hermes relayer adapter (relayer/hermes/hermes_relayer.go)  *)
(* and of the Docker test fixture (dockerutil: DockerSetup, dockerCleanup).*)
(*                                                                         *)
(* Go strings are sequences of symbols.  A symbol is "/", "." or an opaque *)
(* chunk of characters holding neither "/" nor a path-relevant "." : the   *)
(* literal "hermes" is the one-symbol string <<"hermes">>, the home        *)
(* directory "/a/.." is <<"/", "a", "/", ".", ".">>.  A command is a       *)
(* sequence of such strings.                                               *)
(***************************************************************************)
EXTENDS Integers, Sequences, FiniteSets, TLC

VARIABLES
    homeDir,    \* the home directory handed to the command builders
    paths,      \* path name -> HermesPath defined through GeneratePath, or NoPath
    last,       \* the last builder call: [op, args, cmd, logged]
    cfgSeen,    \* every file path a builder has passed after -c so far
    lines,      \* the lines the relayer binary printed
    stdout,     \* the same output as one string, the parsers' input
    parsed,     \* the last parser call: [op, out, err, logged]
    containers, \* Docker's containers: ID -> [label, running, present]
    networks,   \* Docker's networks: ID -> [label, present]
    cl,         \* per test run, the cleanup closure being executed
    setup       \* per test run, where its DockerSetup and test stand

cmdVars == <<homeDir, paths, last, cfgSeen>>

parseVars == <<lines, stdout, parsed>>

dockerVars == <<containers, networks, cl, setup>>

vars == <<cmdVars, parseVars, dockerVars>>

----------------------------------------------------------------------------
(* Bounds and input sets                                                   *)

MaxHomeLen == 3

MaxLines == 3

\* containers and networks left behind when a cleanup is called on its own
MaxContainers == 2

MaxNetworks == 2

\* calls of one cleanup closure in succession
MaxRuns == 2

\* containers and networks left behind when test runs set up concurrently
MaxLeftover == 1

PathChars == {"/", ".", "a"}

ChainIDs == {<<"chain-a">>, <<"chain-b">>}
\* the (source, destination) pairs a path is generated for
ChainPairs == {<<<<"chain-a">>, <<"chain-b">>>>, <<<<"chain-b">>, <<"chain-a">>>>}
PathNames == {<<"p">>, <<"q">>}
KeyNames == {<<"key">>}
Mnemonics == {<<"mnemonic">>}
ChannelIDs == {<<"channel-0">>}
FilePaths == {<<"/", "cfg.json">>}

RECURSIVE SeqsUpTo(_, _)
SeqsUpTo(S, n) ==
    IF n = 0 THEN {<<>>}
    ELSE LET shorter == SeqsUpTo(S, n - 1)
         IN  shorter \cup {Append(s, x) : s \in shorter, x \in S}

HomeDirs == SeqsUpTo(PathChars, MaxHomeLen)

NoPath == [SrcChainID |-> <<"?">>, DestChainID |-> <<"?">>, defined |-> FALSE]

HermesPath(src, dst) == [SrcChainID |-> src, DestChainID |-> dst, defined |-> TRUE]

\* the test names, and a container or network without the ibctest label
TestT == "TestT"

TestU == "TestU"

NoLabel == "none"

Labels == {NoLabel, TestT, TestU}

Runs == {"A", "B"}

IdleCleanup ==
    [pc |-> "idle", conts |-> <<>>, ci |-> 0, nets |-> <<>>, ni |-> 0,
     calls |-> <<>>, failed |-> FALSE, runNo |-> 0, prevFailed |-> FALSE,
     hadConts |-> <<>>, hadNets |-> <<>>, audit |-> FALSE]

IdleSetup(name, pc) ==
    [name |-> name, pc |-> pc, steps |-> <<>>, registered |-> FALSE, netID |-> 0]

\* the state of the Docker fixture while only the commander is exercised
NoDocker ==
    /\ containers = <<>>
    /\ networks = <<>>
    /\ cl = [r \in Runs |-> IdleCleanup]
    /\ setup = [r \in Runs |-> IdleSetup(TestT, "off")]

----------------------------------------------------------------------------
(* path/filepath: Join and Clean, as the commander uses them               *)

Str(chunk) == <<chunk>>

Last(s) == s[Len(s)]

Front(s) == SubSeq(s, 1, Len(s) - 1)

\* strings.Split(s, sep) for a one-symbol separator
RECURSIVE SplitAcc(_, _, _, _)
SplitAcc(s, sep, i, cur) ==
    IF i > Len(s) THEN <<cur>>
    ELSE IF s[i] = sep THEN <<cur>> \o SplitAcc(s, sep, i + 1, <<>>)
    ELSE SplitAcc(s, sep, i + 1, Append(cur, s[i]))

Split(s, sep) == SplitAcc(s, sep, 1, <<>>)

\* strings.Join(elems, sep)
RECURSIVE StringsJoin(_, _)
StringsJoin(elems, sep) ==
    IF Len(elems) = 0 THEN <<>>
    ELSE IF Len(elems) = 1 THEN elems[1]
    ELSE elems[1] \o <<sep>> \o StringsJoin(Tail(elems), sep)

DotDot == <<".", ".">>

\* the component stack filepath.Clean builds, one path element at a time
RECURSIVE CleanAcc(_, _, _)
CleanAcc(comps, rooted, out) ==
    IF Len(comps) = 0 THEN out
    ELSE LET c == Head(comps)
             rest == Tail(comps)
         IN  IF c = <<>> \/ c = <<".">> THEN CleanAcc(rest, rooted, out)
             ELSE IF c = DotDot
                  THEN IF Len(out) > 0 /\ Last(out) # DotDot
                            THEN CleanAcc(rest, rooted, Front(out))
                       ELSE IF rooted THEN CleanAcc(rest, rooted, out)
                       ELSE CleanAcc(rest, rooted, Append(out, c))
             ELSE CleanAcc(rest, rooted, Append(out, c))

Clean(path) ==
    IF path = <<>> THEN <<".">>
    ELSE LET rooted == path[1] = "/"
             out == StringsJoin(CleanAcc(Split(path, "/"), rooted, <<>>), "/")
         IN  IF rooted THEN <<"/">> \o out
             ELSE IF out = <<>> THEN <<".">>
             ELSE out

RECURSIVE Join(_)
Join(elems) ==
    IF Len(elems) = 0 THEN <<>>
    ELSE IF Head(elems) = <<>> THEN Join(Tail(elems))
    ELSE Clean(StringsJoin(elems, "/"))

----------------------------------------------------------------------------
(* commander: the command builders                                         *)

CmdInit(home) ==
    <<Str("hermes"), Str("config"), Str("init"),
      Str("--home"), home>>

AddChainConfiguration(containerFilePath, home) ==
    <<Str("hermes"), Str("chains"), Str("add"), Str("-f"), containerFilePath,
      Str("--home"), home>>

\* AddKey with the chain identifier and the key name in each other's place
AddKeySwapped(chainID, keyName, home) ==
    <<Str("hermes"), Str("keys"), Str("add"), keyName, Str("-n"), chainID,
      Str("-c"), Join(<<home, Str("hermes"), Str("config.toml")>>),
      Str("-j")>>

AddKey(chainID, keyName, home) ==
    <<Str("hermes"), Str("keys"), Str("add"), chainID, Str("-n"), keyName,
      Str("-c"), Join(<<home, Str("hermes"), Str("config.toml")>>),
      Str("-j")>>

\* the four lookups are stubs: the empty string and a nil error, whatever the path
getSourceChainIDFromPath(pathName, home) == [val |-> <<>>, err |-> "nil"]

getDestinationChainIDFromPath(pathName, home) == [val |-> <<>>, err |-> "nil"]

getDestinationClientIDFromPath(pathName, home) == [val |-> <<>>, err |-> "nil"]

getSourcePortIDFromPath(pathName, home) == [val |-> <<>>, err |-> "nil"]

\* a builder's outcome: the command and whether c.log.Error was called
Out(cmd, logged) == [cmd |-> cmd, logged |-> logged]

ClearQueue(pathName, channelID, home) ==
    LET chain == getSourceChainIDFromPath(pathName, home)
        port == getSourcePortIDFromPath(pathName, home)
    IN  IF chain.err # "nil" THEN Out(<<>>, TRUE)
        ELSE IF port.err # "nil" THEN Out(<<>>, TRUE)
        ELSE Out(<<Str("hermes"), Str("clear"), Str("packets"),
                   chain.val, port.val, channelID,
                   Str("-c"), Join(<<home, Str("config.toml")>>),
                   Str("-j")>>, FALSE)

CreateClients(pathName, home) ==
    LET src == getSourceChainIDFromPath(pathName, home)
        dst == getDestinationChainIDFromPath(pathName, home)
    IN  IF src.err # "nil" THEN Out(<<>>, TRUE)
        ELSE IF dst.err # "nil" THEN Out(<<>>, TRUE)
        ELSE Out(<<Str("hermes"), Str("create"), Str("client"), src.val, dst.val,
                   Str("-c"), Join(<<home, Str("config.toml")>>),
                   Str("-j")>>, FALSE)

CreateConnections(pathName, home) ==
    LET src == getSourceChainIDFromPath(pathName, home)
        dst == getDestinationChainIDFromPath(pathName, home)
    IN  IF src.err # "nil" THEN Out(<<>>, TRUE)
        ELSE IF dst.err # "nil" THEN Out(<<>>, TRUE)
        ELSE Out(<<Str("hermes"), Str("tx"), Str("connection"), src.val, dst.val,
                   Str("-c"), Join(<<home, Str("config.toml")>>),
                   Str("-j")>>, FALSE)

GeneratePath(srcChainID, dstChainID, pathName, home) ==
    <<Str("hermes"), Str("paths"), Str("new"), srcChainID, dstChainID, pathName,
      Str("-c"), Join(<<home, Str("config.toml")>>),
      Str("-j")>>

GetChannels(chainID, home) ==
    <<Str("hermes"), Str("q"), Str("channels"), chainID,
      Str("-c"), Join(<<home, Str("config.toml")>>),
      Str("-j")>>

GetConnections(chainID, home) ==
    <<Str("hermes"), Str("q"), Str("connections"), chainID,
      Str("-c"), Join(<<home, Str("config.toml")>>),
      Str("-j")>>

LinkPath(pathName, home) ==
    <<Str("hermes"), Str("tx"), Str("link"), pathName,
      Str("-c"), Join(<<home, Str("config.toml")>>),
      Str("-j")>>

RestoreKey(chainID, keyName, mnemonic, home) ==
    <<Str("hermes"), Str("keys"), Str("restore"), chainID,
      Str("-n"), keyName, Str("-m"), mnemonic,
      Str("-c"), Join(<<home, Str("config.toml")>>),
      Str("-j")>>

StartRelayer(pathName, home) ==
    <<Str("hermes"), Str("start"),
      Str("-c"), Join(<<home, Str("config.toml")>>),
      Str("-j")>>

UpdateClients(pathName, home) ==
    LET dst == getDestinationChainIDFromPath(pathName, home)
        client == getDestinationClientIDFromPath(pathName, home)
    IN  IF dst.err # "nil" THEN Out(<<>>, TRUE)
        ELSE IF client.err # "nil" THEN Out(<<>>, TRUE)
        ELSE Out(<<Str("hermes"), Str("update"), Str("client"), dst.val, client.val,
                   Str("-c"), Join(<<home, Str("config.toml")>>),
                   Str("-j")>>, FALSE)

----------------------------------------------------------------------------
(* The caller of the commander: one action per builder.  The caller keeps  *)
(* the command it was given; a path counts as defined once the command     *)
(* GeneratePath built for it has been handed out.                          *)

\* the file paths a command passes after -c
ConfigArgs(cmd) == {cmd[i + 1] : i \in {j \in 1..(Len(cmd) - 1) : cmd[j] = Str("-c")}}

Record(op, args, out) ==
    /\ last' = [op |-> op, args |-> args, cmd |-> out.cmd, logged |-> out.logged]
    /\ cfgSeen' = cfgSeen \cup ConfigArgs(out.cmd)
    /\ UNCHANGED <<homeDir, parseVars, dockerVars>>

CallInit ==
    /\ Record("Init", <<>>, Out(CmdInit(homeDir), FALSE))
    /\ UNCHANGED paths

CallAddChainConfiguration ==
    \E f \in FilePaths :
        /\ Record("AddChainConfiguration", <<f>>,
                  Out(AddChainConfiguration(f, homeDir), FALSE))
        /\ UNCHANGED paths

CallAddKey ==
    \E c \in ChainIDs, k \in KeyNames :
        /\ Record("AddKey", <<c, k>>, Out(AddKey(c, k, homeDir), FALSE))
        /\ UNCHANGED paths

CallRestoreKey ==
    \E c \in ChainIDs, k \in KeyNames, m \in Mnemonics :
        /\ Record("RestoreKey", <<c, k, m>>, Out(RestoreKey(c, k, m, homeDir), FALSE))
        /\ UNCHANGED paths

CallGeneratePath ==
    \E sd \in ChainPairs, p \in PathNames :
        /\ Record("GeneratePath", <<sd[1], sd[2], p>>,
                  Out(GeneratePath(sd[1], sd[2], p, homeDir), FALSE))
        /\ paths' = [paths EXCEPT ![p] = HermesPath(sd[1], sd[2])]

CallGetChannels ==
    \E c \in ChainIDs :
        /\ Record("GetChannels", <<c>>, Out(GetChannels(c, homeDir), FALSE))
        /\ UNCHANGED paths

CallGetConnections ==
    \E c \in ChainIDs :
        /\ Record("GetConnections", <<c>>, Out(GetConnections(c, homeDir), FALSE))
        /\ UNCHANGED paths

CallLinkPath ==
    \E p \in PathNames :
        /\ Record("LinkPath", <<p>>, Out(LinkPath(p, homeDir), FALSE))
        /\ UNCHANGED paths

CallStartRelayer ==
    \E p \in PathNames :
        /\ Record("StartRelayer", <<p>>, Out(StartRelayer(p, homeDir), FALSE))
        /\ UNCHANGED paths

CallClearQueue ==
    \E p \in PathNames, ch \in ChannelIDs :
        /\ Record("ClearQueue", <<p, ch>>, ClearQueue(p, ch, homeDir))
        /\ UNCHANGED paths

CallCreateClients ==
    \E p \in PathNames :
        /\ Record("CreateClients", <<p>>, CreateClients(p, homeDir))
        /\ UNCHANGED paths

CallCreateConnections ==
    \E p \in PathNames :
        /\ Record("CreateConnections", <<p>>, CreateConnections(p, homeDir))
        /\ UNCHANGED paths

CallUpdateClients ==
    \E p \in PathNames :
        /\ Record("UpdateClients", <<p>>, UpdateClients(p, homeDir))
        /\ UNCHANGED paths

CmdInitState ==
    /\ homeDir \in HomeDirs
    /\ paths = [p \in PathNames |-> NoPath]
    /\ last = [op |-> "none", args |-> <<>>, cmd |-> <<>>, logged |-> FALSE]
    /\ cfgSeen = {}
    /\ lines = <<>>
    /\ stdout = <<>>
    /\ parsed = [op |-> "none", out |-> <<>>, err |-> "nil", logged |-> 0]
    /\ NoDocker

CmdNext ==
    \/ CallInit
    \/ CallAddChainConfiguration
    \/ CallAddKey
    \/ CallRestoreKey
    \/ CallGeneratePath
    \/ CallGetChannels
    \/ CallGetConnections
    \/ CallLinkPath
    \/ CallStartRelayer
    \/ CallClearQueue
    \/ CallCreateClients
    \/ CallCreateConnections
    \/ CallUpdateClients

SpecCmd == CmdInitState /\ [][CmdNext]_vars

----------------------------------------------------------------------------
(* Properties of the command builders                                      *)

\* the argument vectors of the external interface, <config> being cfg
Section6(op, a, home, cfg) ==
    CASE op = "Init" ->
           <<Str("hermes"), Str("config"), Str("init"), Str("--home"), home>>
      [] op = "AddChainConfiguration" ->
           <<Str("hermes"), Str("chains"), Str("add"), Str("-f"), a[1], Str("--home"), home>>
      [] op = "AddKey" ->
           <<Str("hermes"), Str("keys"), Str("add"), a[1], Str("-n"), a[2],
             Str("-c"), cfg, Str("-j")>>
      [] op = "GeneratePath" ->
           <<Str("hermes"), Str("paths"), Str("new"), a[1], a[2], a[3],
             Str("-c"), cfg, Str("-j")>>
      [] op = "GetChannels" ->
           <<Str("hermes"), Str("q"), Str("channels"), a[1], Str("-c"), cfg, Str("-j")>>
      [] op = "GetConnections" ->
           <<Str("hermes"), Str("q"), Str("connections"), a[1], Str("-c"), cfg, Str("-j")>>
      [] op = "LinkPath" ->
           <<Str("hermes"), Str("tx"), Str("link"), a[1], Str("-c"), cfg, Str("-j")>>
      [] op = "RestoreKey" ->
           <<Str("hermes"), Str("keys"), Str("restore"), a[1], Str("-n"), a[2],
             Str("-m"), a[3], Str("-c"), cfg, Str("-j")>>
      [] op = "StartRelayer" ->
           <<Str("hermes"), Str("start"), Str("-c"), cfg, Str("-j")>>

PlainBuilders ==
    {"Init", "AddChainConfiguration", "AddKey", "GeneratePath", "GetChannels",
     "GetConnections", "LinkPath", "RestoreKey", "StartRelayer"}

PathBuilders == {"ClearQueue", "CreateClients", "CreateConnections", "UpdateClients"}

\* tok names a file config.toml
IsConfigFile(tok) == Last(Split(tok, "/")) = Str("config.toml")

\* C1: each plain builder returns the token list of the external interface for
\* it, its arguments in the listed positions, the home directory verbatim after
\* --home and a config.toml path after -c; nothing more, nothing less.
C1_BuildersMatchSection6 ==
    last.op \in PlainBuilders =>
        LET given == ConfigArgs(last.cmd)
            cfg == IF given = {} THEN <<>> ELSE CHOOSE x \in given : TRUE
        IN  /\ last.cmd = Section6(last.op, last.args, homeDir, cfg)
            /\ given # {} => IsConfigFile(cfg)
            /\ ~last.logged

C1_Witness ==
    /\ last.op = "RestoreKey"
    /\ homeDir = <<"/", "a", "/">>
    /\ last.cmd = <<Str("hermes"), Str("keys"), Str("restore"), Str("chain-b"),
                    Str("-n"), Str("key"), Str("-m"), Str("mnemonic"),
                    Str("-c"), <<"/", "a", "/", "config.toml">>, Str("-j")>>

\* C2: for a path defined with source S and destination D, CreateClients and
\* CreateConnections put S and D, and UpdateClients puts D and a client
\* identifier, in the identifier positions of the command.
C2_PathIdentifiersInCommand ==
    (last.op \in {"CreateClients", "CreateConnections", "UpdateClients"}
        /\ paths[last.args[1]].defined) =>
        LET path == paths[last.args[1]]
            cfg == Join(<<homeDir, Str("config.toml")>>)
        IN  CASE last.op = "CreateClients" ->
                   last.cmd = <<Str("hermes"), Str("create"), Str("client"),
                                path.SrcChainID, path.DestChainID,
                                Str("-c"), cfg, Str("-j")>>
              [] last.op = "CreateConnections" ->
                   last.cmd = <<Str("hermes"), Str("tx"), Str("connection"),
                                path.SrcChainID, path.DestChainID,
                                Str("-c"), cfg, Str("-j")>>
              [] last.op = "UpdateClients" ->
                   /\ Len(last.cmd) = 8
                   /\ SubSeq(last.cmd, 1, 4) = <<Str("hermes"), Str("update"),
                                                Str("client"), path.DestChainID>>
                   /\ last.cmd[5] # <<>>
                   /\ SubSeq(last.cmd, 6, 8) = <<Str("-c"), cfg, Str("-j")>>

\* C3: a path-based builder returns either the empty command with a logged error
\* (the path's identifiers cannot be looked up) or a command with every
\* position filled and nothing logged (they can); never anything in between.
C3_EmptyOrFullyPopulated ==
    last.op \in PathBuilders =>
        LET found == paths[last.args[1]].defined
            populated == /\ last.cmd # <<>>
                         /\ \A i \in 1..Len(last.cmd) : last.cmd[i] # <<>>
        IN  /\ ~found => (last.cmd = <<>> /\ last.logged)
            /\ found => (populated /\ ~last.logged)

\* C10: every builder that passes a configuration file after -c passes the
\* same file for one home directory.
C10_OneConfigFile == Cardinality(cfgSeen) <= 1

----------------------------------------------------------------------------
(* commander: the output parsers.  In the relayer's output " " is          *)
(* whitespace, "LF" the line feed, "{rec1}" and "{rec2}" the texts of two  *)
(* JSON objects and "garbage" a text that is no JSON value.                *)

JsonObjects == {"{rec1}", "{rec2}"}

\* the record a JSON object text decodes to
Record1 == [id |-> "rec1"]

Record2 == [id |-> "rec2"]

DecodeObject(sym) == IF sym = "{rec1}" THEN Record1 ELSE Record2

RECURSIVE TrimLeft(_)
TrimLeft(s) ==
    IF Len(s) > 0 /\ Head(s) \in {" ", "LF"} THEN TrimLeft(Tail(s)) ELSE s

RECURSIVE TrimRight(_)
TrimRight(s) ==
    IF Len(s) > 0 /\ Last(s) \in {" ", "LF"} THEN TrimRight(Front(s)) ELSE s

\* strings.TrimSpace
TrimSpace(s) == TrimRight(TrimLeft(s))

\* json.Unmarshal of one line into a record: white space around the value is
\* skipped; exactly one object must remain
Unmarshal(line) ==
    LET text == TrimSpace(line)
    IN  IF Len(text) = 1 /\ text[1] \in JsonObjects
        THEN [val |-> DecodeObject(text[1]), err |-> "nil"]
        ELSE [val |-> [id |-> ""], err |-> "syntax error"]

ParseOut(out, logged) == [out |-> out, err |-> "nil", logged |-> logged]

\* the loop of ParseGetChannelsOutput leaving at the first line it cannot decode
RECURSIVE ChannelsLoopAbort(_, _, _)
ChannelsLoopAbort(channelSplit, channels, logged) ==
    IF Len(channelSplit) = 0 THEN ParseOut(channels, logged)
    ELSE LET channel == Head(channelSplit)
             dec == Unmarshal(channel)
         IN  IF TrimSpace(channel) = <<>>
             THEN ChannelsLoopAbort(Tail(channelSplit), channels, logged)
             ELSE IF dec.err # "nil"
             THEN ParseOut(channels, logged + 1)
             ELSE ChannelsLoopAbort(Tail(channelSplit), Append(channels, dec.val), logged)

RECURSIVE ChannelsLoop(_, _, _)
ChannelsLoop(channelSplit, channels, logged) ==
    IF Len(channelSplit) = 0 THEN ParseOut(channels, logged)
    ELSE LET channel == Head(channelSplit)
             dec == Unmarshal(channel)
         IN  IF TrimSpace(channel) = <<>>
             THEN ChannelsLoop(Tail(channelSplit), channels, logged)
             ELSE IF dec.err # "nil"
             THEN ChannelsLoop(Tail(channelSplit), channels, logged + 1)
             ELSE ChannelsLoop(Tail(channelSplit), Append(channels, dec.val), logged)

ParseGetChannelsOutput(out) == ChannelsLoop(Split(out, "LF"), <<>>, 0)

RECURSIVE ConnectionsLoop(_, _, _)
ConnectionsLoop(split, connections, logged) ==
    IF Len(split) = 0 THEN ParseOut(connections, logged)
    ELSE LET connection == Head(split)
             dec == Unmarshal(connection)
         IN  IF TrimSpace(connection) = <<>>
             THEN ConnectionsLoop(Tail(split), connections, logged)
             ELSE IF dec.err # "nil"
             THEN ConnectionsLoop(Tail(split), connections, logged + 1)
             ELSE ConnectionsLoop(Tail(split), Append(connections, dec.val), logged)

ParseGetConnectionsOutput(out) == ConnectionsLoop(Split(out, "LF"), <<>>, 0)

\* the lines the binary may print: blank, a record, malformed
BlankLines == {<<>>, <<" ">>}

RecordLines == {<<"{rec1}">>, <<" ", "{rec2}", " ">>}

MalformedLines == {<<"garbage">>, <<"{rec1}", "{rec2}">>}

LineTexts == BlankLines \cup RecordLines \cup MalformedLines

CallParseGetChannelsOutput ==
    /\ parsed' = [op |-> "ParseGetChannelsOutput"] @@ ParseGetChannelsOutput(stdout)
    /\ UNCHANGED <<lines, stdout, cmdVars, dockerVars>>

CallParseGetConnectionsOutput ==
    /\ parsed' = [op |-> "ParseGetConnectionsOutput"] @@ ParseGetConnectionsOutput(stdout)
    /\ UNCHANGED <<lines, stdout, cmdVars, dockerVars>>

\* the binary's output: the lines, a line feed between them, one at the end or not
ParseInitState ==
    /\ lines \in SeqsUpTo(LineTexts, MaxLines)
    /\ \E newlineAtEnd \in BOOLEAN :
           stdout = StringsJoin(lines, "LF") \o (IF newlineAtEnd THEN <<"LF">> ELSE <<>>)
    /\ parsed = [op |-> "none", out |-> <<>>, err |-> "nil", logged |-> 0]
    /\ homeDir = <<>>
    /\ paths = [p \in PathNames |-> NoPath]
    /\ last = [op |-> "none", args |-> <<>>, cmd |-> <<>>, logged |-> FALSE]
    /\ cfgSeen = {}
    /\ NoDocker

ParseNext ==
    \/ CallParseGetChannelsOutput
    \/ CallParseGetConnectionsOutput

SpecParse == ParseInitState /\ [][ParseNext]_vars

\* the records of the record lines among ls, in order
RECURSIVE RecordsOf(_)
RecordsOf(ls) ==
    IF Len(ls) = 0 THEN <<>>
    ELSE IF Head(ls) = <<"{rec1}">> THEN <<Record1>> \o RecordsOf(Tail(ls))
    ELSE IF Head(ls) = <<" ", "{rec2}", " ">> THEN <<Record2>> \o RecordsOf(Tail(ls))
    ELSE RecordsOf(Tail(ls))

\* C4: both parsers return a nil error and exactly the records of the valid
\* lines of the output, in the order of the output: a malformed line neither
\* ends the parsing nor adds an element, and neither does a blank line.
C4_ParsersKeepValidLines ==
    parsed.op # "none" =>
        /\ parsed.err = "nil"
        /\ parsed.out = RecordsOf(lines)

C4_Witness ==
    /\ parsed.op = "ParseGetChannelsOutput"
    /\ lines = << <<"garbage">>, <<>>, <<" ", "{rec2}", " ">> >>
    /\ parsed.out = <<Record2>>
    /\ parsed.logged = 1

----------------------------------------------------------------------------
(* dockerutil: dockerCleanup.  Every call of the Docker client is one      *)
(* step; the client may fail any call, and the closure drops every error.  *)

\* the label test of the two loops: the key ibctest with the value testName
\* the label test looking at the key alone
MatchesKeyOnly(label, testName) == label # NoLabel

Matches(label, testName) == label # NoLabel /\ label = testName

\* the IDs a listing returns
PresentIDs(resources) ==
    SelectSeq([i \in 1..Len(resources) |-> i], LAMBDA i : resources[i].present)

\* the position from `from` on of the next listed resource the loop acts on, or 0
\* the loops acting on every listed resource, whatever its labels
NextMatchUnfiltered(ids, from, resources, testName) ==
    IF from <= Len(ids) THEN from ELSE 0

NextMatch(ids, from, resources, testName) ==
    LET hits == {j \in from..Len(ids) : Matches(resources[ids[j]].label, testName)}
    IN  IF hits = {} THEN 0 ELSE CHOOSE j \in hits : \A k \in hits : j <= k

Begin(c) ==
    [IdleCleanup EXCEPT !.pc = "listc", !.runNo = c.runNo + 1, !.prevFailed = c.failed,
                        !.audit = c.audit]

\* The history of a closure called on its own (audit): the calls it issued,
\* whether a list or a remove call failed, what Docker held at each listing.
Logged(c, call) == IF c.audit THEN Append(c.calls, call) ELSE c.calls

Failed(c, now) == c.audit /\ (c.failed \/ now)

Had(c, resources) == IF c.audit THEN PresentIDs(resources) ELSE <<>>

\* A loop's variables end with the loop; the history keeps what was listed.
AfterLoops(c) ==
    IF c.audit THEN [c EXCEPT !.pc = "done"]
    ELSE [IdleCleanup EXCEPT !.pc = "done", !.runNo = c.runNo]

AfterContainers(c) ==
    IF c.audit THEN [c EXCEPT !.pc = "listn"]
    ELSE [c EXCEPT !.pc = "listn", !.conts = <<>>, !.ci = 0]

ListContainers(r) ==
    /\ cl[r].pc = "listc"
    /\ \E ok \in BOOLEAN :
         LET cont == IF ok THEN PresentIDs(containers) ELSE <<>>
             j == NextMatch(cont, 1, containers, setup[r].name)
             c == [cl[r] EXCEPT !.conts = cont, !.ci = j,
                                !.hadConts = Had(cl[r], containers),
                                !.failed = Failed(cl[r], ~ok),
                                !.pc = "stop"]
         IN  cl' = [cl EXCEPT ![r] = IF j = 0 THEN AfterContainers(c) ELSE c]
    /\ UNCHANGED <<containers, networks, setup, cmdVars, parseVars>>

\* StopContainer giving up on the container when the stop fails
StopContainerBail(r) ==
    /\ cl[r].pc = "stop"
    /\ LET id == cl[r].conts[cl[r].ci]
           j == NextMatch(cl[r].conts, cl[r].ci + 1, containers, setup[r].name)
       IN  /\ \E ok \in BOOLEAN :
                /\ containers' = IF ok /\ containers[id].present /\ containers[id].running
                                 THEN [containers EXCEPT ![id].running = FALSE]
                                 ELSE containers
                /\ cl' = [cl EXCEPT ![r] =
                            [@ EXCEPT !.calls = Logged(cl[r], <<"stop", id>>),
                                      !.ci = IF ok THEN @ ELSE j,
                                      !.pc = IF ok THEN "wait"
                                             ELSE IF j = 0 THEN "listn" ELSE "stop"]]
    /\ UNCHANGED <<networks, setup, cmdVars, parseVars>>

StopContainer(r) ==
    /\ cl[r].pc = "stop"
    /\ LET id == cl[r].conts[cl[r].ci]
       IN  /\ \E ok \in BOOLEAN :
                containers' = IF ok /\ containers[id].present /\ containers[id].running
                              THEN [containers EXCEPT ![id].running = FALSE]
                              ELSE containers
           /\ cl' = [cl EXCEPT ![r] = [@ EXCEPT !.calls = Logged(cl[r], <<"stop", id>>),
                                                !.pc = "wait"]]
    /\ UNCHANGED <<networks, setup, cmdVars, parseVars>>

WaitContainer(r) ==
    /\ cl[r].pc = "wait"
    /\ LET id == cl[r].conts[cl[r].ci]
       IN  cl' = [cl EXCEPT ![r] = [@ EXCEPT !.calls = Logged(cl[r], <<"wait", id>>),
                                             !.pc = "remove"]]
    /\ UNCHANGED <<containers, networks, setup, cmdVars, parseVars>>

RemoveContainer(r) ==
    /\ cl[r].pc = "remove"
    /\ LET id == cl[r].conts[cl[r].ci]
           j == NextMatch(cl[r].conts, cl[r].ci + 1, containers, setup[r].name)
       IN  \E ok \in BOOLEAN :
             LET removed == ok /\ containers[id].present
                 c == [cl[r] EXCEPT !.calls = Logged(cl[r], <<"remove", id>>),
                                        !.failed = Failed(cl[r], ~removed),
                                        !.ci = j,
                                        !.pc = "stop"]
             IN  /\ containers' = IF removed
                                  THEN [containers EXCEPT ![id].present = FALSE,
                                                          ![id].running = FALSE]
                                  ELSE containers
                 /\ cl' = [cl EXCEPT ![r] = IF j = 0 THEN AfterContainers(c) ELSE c]
    /\ UNCHANGED <<networks, setup, cmdVars, parseVars>>

ListNetworks(r) ==
    /\ cl[r].pc = "listn"
    /\ \E ok \in BOOLEAN :
         LET nets == IF ok THEN PresentIDs(networks) ELSE <<>>
             j == NextMatch(nets, 1, networks, setup[r].name)
             c == [cl[r] EXCEPT !.nets = nets, !.ni = j,
                                !.hadNets = Had(cl[r], networks),
                                !.failed = Failed(cl[r], ~ok),
                                !.pc = "rmnet"]
         IN  cl' = [cl EXCEPT ![r] = IF j = 0 THEN AfterLoops(c) ELSE c]
    /\ UNCHANGED <<containers, networks, setup, cmdVars, parseVars>>

\* RemoveNetwork asking Docker to remove a network that does not exist
RemoveNetworkWrongID(r) ==
    /\ cl[r].pc = "rmnet"
    /\ LET id == cl[r].nets[cl[r].ni]
           j == NextMatch(cl[r].nets, cl[r].ni + 1, networks, setup[r].name)
           c == [cl[r] EXCEPT !.calls = Logged(cl[r], <<"rmnet", id>>),
                              !.ni = j,
                              !.pc = "rmnet"]
       IN  cl' = [cl EXCEPT ![r] = IF j = 0 THEN AfterLoops(c) ELSE c]
    /\ UNCHANGED <<containers, networks, setup, cmdVars, parseVars>>

RemoveNetwork(r) ==
    /\ cl[r].pc = "rmnet"
    /\ LET id == cl[r].nets[cl[r].ni]
           j == NextMatch(cl[r].nets, cl[r].ni + 1, networks, setup[r].name)
       IN  \E ok \in BOOLEAN :
             LET removed == ok /\ networks[id].present
                 c == [cl[r] EXCEPT !.calls = Logged(cl[r], <<"rmnet", id>>),
                                        !.failed = Failed(cl[r], ~removed),
                                        !.ni = j,
                                        !.pc = "rmnet"]
             IN  /\ networks' = IF removed
                                THEN [networks EXCEPT ![id].present = FALSE]
                                ELSE networks
                 /\ cl' = [cl EXCEPT ![r] = IF j = 0 THEN AfterLoops(c) ELSE c]
    /\ UNCHANGED <<containers, setup, cmdVars, parseVars>>

CleanupStep(r) ==
    \/ ListContainers(r)
    \/ StopContainer(r)
    \/ WaitContainer(r)
    \/ RemoveContainer(r)
    \/ ListNetworks(r)
    \/ RemoveNetwork(r)

\* a caller invoking the closure dockerCleanup(testName, pool) returned
InvokeCleanup(r) ==
    /\ setup[r].pc \in {"direct", "once"}
    /\ cl[r].pc \in {"idle", "done"}
    /\ cl[r].runNo < (IF setup[r].pc = "once" THEN 1 ELSE MaxRuns)
    /\ cl' = [cl EXCEPT ![r] = Begin(@)]
    /\ UNCHANGED <<containers, networks, setup, cmdVars, parseVars>>

\* n containers left behind, up and labeled in any way
ContainerStates(n) == [1..n -> [label : Labels, running : {TRUE}, present : {TRUE}]]

\* n networks left behind, labeled in any way
NetworkStates(n) == [1..n -> [label : Labels, present : {TRUE}]]

NoCommander ==
    /\ homeDir = <<>>
    /\ paths = [p \in PathNames |-> NoPath]
    /\ last = [op |-> "none", args |-> <<>>, cmd |-> <<>>, logged |-> FALSE]
    /\ cfgSeen = {}
    /\ lines = <<>>
    /\ stdout = <<>>
    /\ parsed = [op |-> "none", out |-> <<>>, err |-> "nil", logged |-> 0]

\* any Docker state, and one caller of the cleanup for TestT
CleanupInitState ==
    /\ \E n \in 0..MaxContainers : containers \in ContainerStates(n)
    /\ \E n \in 0..MaxNetworks : networks \in NetworkStates(n)
    /\ cl = [r \in Runs |-> [IdleCleanup EXCEPT !.audit = TRUE]]
    /\ setup = [r \in Runs |-> IdleSetup(TestT, IF r = "A" THEN "direct" ELSE "off")]
    /\ NoCommander

CleanupNext == \E r \in Runs : InvokeCleanup(r) \/ CleanupStep(r)

SpecCleanup == CleanupInitState /\ [][CleanupNext]_vars

\* any Docker state, and the teardown of TestT run once
TeardownInitState ==
    /\ \E n \in 0..MaxContainers : containers \in ContainerStates(n)
    /\ \E n \in 0..MaxNetworks : networks \in NetworkStates(n)
    /\ cl = [r \in Runs |-> [IdleCleanup EXCEPT !.audit = TRUE]]
    /\ setup = [r \in Runs |-> IdleSetup(TestT, IF r = "A" THEN "once" ELSE "off")]
    /\ NoCommander

\* every call of the Docker client returns: the stop has a 10 s grace, the wait
\* a 5 s deadline, and the client answers the others
SpecTeardownFair ==
    /\ TeardownInitState /\ [][CleanupNext]_vars
    /\ \A r \in Runs : WF_vars(InvokeCleanup(r)) /\ WF_vars(CleanupStep(r))

----------------------------------------------------------------------------
(* Properties of dockerCleanup called on its own                           *)

RECURSIVE ContainerCalls(_, _)
ContainerCalls(ids, testName) ==
    IF Len(ids) = 0 THEN <<>>
    ELSE (IF containers[Head(ids)].label = testName
          THEN << <<"stop", Head(ids)>>, <<"wait", Head(ids)>>, <<"remove", Head(ids)>> >>
          ELSE <<>>) \o ContainerCalls(Tail(ids), testName)

RECURSIVE NetworkCalls(_, _)
NetworkCalls(ids, testName) ==
    IF Len(ids) = 0 THEN <<>>
    ELSE (IF networks[Head(ids)].label = testName
          THEN << <<"rmnet", Head(ids)>> >>
          ELSE <<>>) \o NetworkCalls(Tail(ids), testName)

IsPrefix(s, t) == Len(s) <= Len(t) /\ s = SubSeq(t, 1, Len(s))

\* the calls one run owes to the containers contIDs and the networks netIDs
OwedCalls(contIDs, netIDs, testName) ==
    ContainerCalls(contIDs, testName) \o NetworkCalls(netIDs, testName)

Running(r) == cl[r].pc \notin {"idle", "done"}

DockerState == <<containers, networks>>

C6_CallsForEveryLabeledResource ==
    \A r \in Runs :
        cl[r].pc = "done" /\ cl[r].runNo > 0 =>
            cl[r].calls = OwedCalls(cl[r].hadConts, cl[r].hadNets, setup[r].name)

\* C6 amended: a run issues stop, wait, force-remove, once each and in that
\* order, for every container labeled with the test name that its listing
\* returned (none when the listing failed), then one remove for every such
\* network its listing returned; the sequence does not depend on which stop,
\* wait or remove call failed, and the run reaches its end.
C6_CallsForEveryListedResource ==
    /\ [](\A r \in Runs :
            /\ cl[r].pc \in {"stop", "wait", "remove"} =>
                 IsPrefix(cl[r].calls, ContainerCalls(cl[r].conts, setup[r].name))
            /\ cl[r].pc = "listn" =>
                 cl[r].calls = ContainerCalls(cl[r].conts, setup[r].name)
            /\ cl[r].pc = "rmnet" =>
                 IsPrefix(cl[r].calls,
                          OwedCalls(cl[r].conts, cl[r].nets, setup[r].name))
            /\ (cl[r].pc = "done" /\ cl[r].runNo > 0) =>
                 cl[r].calls = OwedCalls(cl[r].conts, cl[r].nets, setup[r].name))
    /\ \A r \in Runs : Running(r) ~> (cl[r].pc = "done")

C6_Witness ==
    /\ cl["A"].pc = "done"
    /\ cl["A"].failed
    /\ cl["A"].calls = << <<"stop", 1>>, <<"wait", 1>>, <<"remove", 1>>,
                          <<"stop", 2>>, <<"wait", 2>>, <<"remove", 2>>,
                          <<"rmnet", 2>> >>
    /\ containers[1].present /\ containers[1].running

\* C7: a cleanup for a test name calls stop, wait or remove only on resources
\* labeled with that name; a container or network with another label or with
\* none is never changed by it and stays present.
C7_OtherLabelsUntouched ==
    /\ [](\A r \in Runs : \A k \in 1..Len(cl[r].calls) :
            LET call == cl[r].calls[k]
            IN  IF call[1] = "rmnet"
                THEN networks[call[2]].label = setup[r].name
                ELSE containers[call[2]].label = setup[r].name)
    /\ [](/\ \A id \in 1..Len(containers) :
               containers[id].label \notin {setup[r].name : r \in Runs}
                   => containers[id].present
          /\ \A id \in 1..Len(networks) :
               networks[id].label \notin {setup[r].name : r \in Runs}
                   => networks[id].present)
    /\ [][/\ \A id \in 1..Len(containers) :
               containers[id].label \notin {setup[r].name : r \in Runs}
                   => containers'[id] = containers[id]
          /\ \A id \in 1..Len(networks) :
               networks[id].label \notin {setup[r].name : r \in Runs}
                   => networks'[id] = networks[id]]_vars

C7_Witness ==
    /\ cl["A"].pc = "done"
    /\ cl["A"].runNo = 2
    /\ Len(containers) = 2 /\ Len(networks) = 2
    /\ containers[1].label = TestU /\ containers[1].running
    /\ containers[2].label = TestT /\ ~containers[2].present
    /\ networks[1].label = TestT /\ ~networks[1].present
    /\ networks[2].label = NoLabel /\ networks[2].present

----------------------------------------------------------------------------
(* dockerutil: DockerSetup, one step per statement that calls out, and the *)
(* test that called it.  t.Fatalf ends the test, and the end of a test     *)
(* runs the functions registered with t.Cleanup.                           *)

Step(r, name, pc) == [setup[r] EXCEPT !.steps = Append(@, name), !.pc = pc]

\* dockertest.NewPool("")
NewPool(r) ==
    /\ setup[r].pc = "start"
    /\ \E ok \in BOOLEAN :
         setup' = [setup EXCEPT ![r] = IF ok THEN Step(r, "pool", "pool")
                                       ELSE [@ EXCEPT !.pc = "aborted"]]
    /\ UNCHANGED <<containers, networks, cl, cmdVars, parseVars>>

\* t.Cleanup(dockerCleanup(t.Name(), pool))
RegisterCleanup(r) ==
    /\ setup[r].pc = "pool"
    /\ setup' = [setup EXCEPT ![r] = [Step(r, "register", "registered")
                                        EXCEPT !.registered = TRUE]]
    /\ UNCHANGED <<containers, networks, cl, cmdVars, parseVars>>

\* dockerCleanup(t.Name(), pool)(): the closure is entered
PreCleanup(r) ==
    /\ setup[r].pc = "registered"
    /\ setup' = [setup EXCEPT ![r] = Step(r, "precleanup", "preclean")]
    /\ cl' = [cl EXCEPT ![r] = Begin(@)]
    /\ UNCHANGED <<containers, networks, cmdVars, parseVars>>

\* CreateNetwork leaving the labels of the network out
CreateNetworkUnlabeled(r) ==
    /\ setup[r].pc = "preclean"
    /\ cl[r].pc = "done"
    /\ \E ok \in BOOLEAN :
         IF ok
         THEN /\ networks' = Append(networks, [label |-> NoLabel, present |-> TRUE])
              /\ setup' = [setup EXCEPT ![r] = [Step(r, "network", "created")
                                                  EXCEPT !.netID = Len(networks) + 1]]
              /\ UNCHANGED cl
         ELSE /\ setup' = [setup EXCEPT ![r] = [@ EXCEPT !.pc = "teardown"]]
              /\ cl' = [cl EXCEPT ![r] = Begin(@)]
              /\ UNCHANGED networks
    /\ UNCHANGED <<containers, cmdVars, parseVars>>

\* pool.CreateNetwork with the label ibctest = t.Name(), once the closure is back
CreateNetwork(r) ==
    /\ setup[r].pc = "preclean"
    /\ cl[r].pc = "done"
    /\ \E ok \in BOOLEAN :
         IF ok
         THEN /\ networks' = Append(networks, [label |-> setup[r].name, present |-> TRUE])
              /\ setup' = [setup EXCEPT ![r] = [Step(r, "network", "created")
                                                  EXCEPT !.netID = Len(networks) + 1]]
              /\ UNCHANGED cl
         ELSE /\ setup' = [setup EXCEPT ![r] = [@ EXCEPT !.pc = "teardown"]]
              /\ cl' = [cl EXCEPT ![r] = Begin(@)]
              /\ UNCHANGED networks
    /\ UNCHANGED <<containers, cmdVars, parseVars>>

\* return Pool{pool, network.Network.ID}
ReturnPool(r) ==
    /\ setup[r].pc = "created"
    /\ setup' = [setup EXCEPT ![r] = [@ EXCEPT !.pc = "testing"]]
    /\ UNCHANGED <<containers, networks, cl, cmdVars, parseVars>>

\* the test ends: the registered closure is entered
TestEnds(r) ==
    /\ setup[r].pc = "testing"
    /\ setup[r].registered
    /\ setup' = [setup EXCEPT ![r] = [@ EXCEPT !.pc = "teardown"]]
    /\ cl' = [cl EXCEPT ![r] = Begin(@)]
    /\ UNCHANGED <<containers, networks, cmdVars, parseVars>>

\* two tests, of one name or of two, over whatever earlier runs left behind
DockerInitState ==
    /\ \E n \in 0..MaxLeftover : containers \in ContainerStates(n)
    /\ \E n \in 0..MaxLeftover : networks \in NetworkStates(n)
    /\ cl = [r \in Runs |-> IdleCleanup]
    /\ \E nameB \in {TestT, TestU} :
         setup = [r \in Runs |-> IdleSetup(IF r = "A" THEN TestT ELSE nameB, "start")]
    /\ NoCommander

DockerNext ==
    \E r \in Runs :
        \/ NewPool(r)
        \/ RegisterCleanup(r)
        \/ PreCleanup(r)
        \/ CreateNetwork(r)
        \/ ReturnPool(r)
        \/ TestEnds(r)
        \/ CleanupStep(r)

SpecDocker == DockerInitState /\ [][DockerNext]_vars

----------------------------------------------------------------------------
(* Properties of DockerSetup                                               *)

\* no other test of r's name has entered a cleanup closure
Undisturbed(r) ==
    \A q \in Runs \ {r} : setup[q].name # setup[r].name \/ cl[q].runNo = 0

OwnNetworkIntact(r) ==
    /\ setup[r].netID \in 1..Len(networks)
    /\ networks[setup[r].netID].present
    /\ networks[setup[r].netID].label = setup[r].name

\* C8 as stated: the steps of DockerSetup come in the order pool client,
\* pre-cleanup, network, registration of the teardown.
C8_RegistersTeardownLast ==
    \A r \in Runs :
        IsPrefix(setup[r].steps, <<"pool", "precleanup", "network", "register">>)

\* C8 amended: the steps come in the order pool client, registration of the
\* teardown, pre-cleanup, network.  The pre-cleanup of a call is over before
\* the call creates its network; a teardown is registered in every run that
\* created a network; and, unless another test of the same name cleans up
\* meanwhile, the network is present and labeled with the test name from its
\* creation until the test ends.
C8_RegistersTeardownFirst ==
    \A r \in Runs :
        /\ IsPrefix(setup[r].steps, <<"pool", "register", "precleanup", "network">>)
        /\ setup[r].netID # 0 => setup[r].registered
        /\ (setup[r].pc = "preclean" /\ cl[r].pc # "done") => setup[r].netID = 0
        /\ (setup[r].pc \in {"created", "testing"} /\ Undisturbed(r))
               => OwnNetworkIntact(r)
        /\ setup[r].pc = "aborted" => (~setup[r].registered /\ cl[r].runNo = 0)

C8_Witness ==
    /\ setup["A"].pc = "testing"
    /\ setup["A"].steps = <<"pool", "register", "precleanup", "network">>
    /\ setup["A"].netID = 2
    /\ networks[1].label = TestT /\ ~networks[1].present
    /\ networks[2].label = TestT /\ networks[2].present
    /\ setup["B"].pc = "start"

\* C9: the network a test holds after DockerSetup, its teardown not yet run,
\* is never removed by a test of another name; a test of the same name can
\* remove it (C9_Witness is reachable).
C9_OtherNamesNeverInterfere ==
    \A r \in Runs :
        (setup[r].pc = "testing"
            /\ \A q \in Runs \ {r} : setup[q].name # setup[r].name)
            => OwnNetworkIntact(r)

C9_Witness ==
    /\ setup["A"].name = setup["B"].name
    /\ setup["A"].pc = "testing"
    /\ setup["A"].netID # 0
    /\ ~networks[setup["A"].netID].present
    /\ setup["B"].pc \in {"preclean", "teardown"}

====
